---- MODULE Spec2Model ----
(***************************************************************************)
(* Model of src/datalake.py: a local data lake with a JSON catalog, a      *)
(* tables/ directory of copied data files, a best-effort git snapshot and  *)
(* a textual SQL rewriter.  Strings that the code scans or builds (SQL,    *)
(* logical names, file names, paths) are sequences of one-character        *)
(* strings, so that the regular expressions and the path construction are  *)
(* computed as the code computes them.                                     *)
(***************************************************************************)
EXTENDS Integers, Sequences, FiniteSets, TLC

VARIABLES dirs, catalogDoc, files, commits, last

vars == <<dirs, catalogDoc, files, commits, last>>

----------------------------------------------------------------------------
(* Bounds of the model *)

\* a readable source data file has 1..MaxCols columns
MaxCols == 3

\* a SQL input is 1..MaxSqlWords words joined by one-character separators
MaxSqlWords == 2

----------------------------------------------------------------------------
(* Characters and strings *)

Letters == {"a","b","c","d","e","f","g","h","i","j","k","l","m",
            "n","o","p","q","r","s","t","u","v","w","x","y","z"}

Digits == <<"0","1","2","3","4","5","6","7","8","9">>

\* characters matched by \w in a Python str pattern (restricted to ASCII)
WordChars == Letters \cup {Digits[i] : i \in 1..10} \cup {"_"}

\* str(table_index) inside the f-strings of add_table
RECURSIVE Str(_)
Str(n) == IF n < 10 THEN <<Digits[n + 1]>>
          ELSE Str(n \div 10) \o <<Digits[(n % 10) + 1]>>

\* str.lower() on the suffixes the model feeds to add_table
Lower(ext) == IF ext = <<".","C","S","V">> THEN <<".","c","s","v">> ELSE ext

DATA_LAKE_ROOT == <<"m","y","-","d","a","t","a","l","a","k","e">>

TABLES_DIR == <<"t","a","b","l","e","s">>

METADATA_DIR == <<"m","e","t","a","d","a","t","a">>

CsvExt == <<".","c","s","v">>

ParquetExt == <<".","p","a","r","q","u","e","t">>

TxtExt == <<".","t","x","t">>

UpperCsvExt == <<".","C","S","V">>

DescSuffix == <<".","d","e","s","c","r","i","p","t","i","o","n",".","m","d">>

\* the value None of description_file
None == <<>>

----------------------------------------------------------------------------
(* Inputs *)

\* logical table names offered to add_table / get_table_meta
Names == { <<"s">>, <<"c","s","v">> }

\* suffixes of the source files offered to add_table
Suffixes == {CsvExt, UpperCsvExt, ParquetExt, TxtExt}

\* what shutil.copy and the engine find at source_file_path: no file (the copy
\* fails), a file the engine cannot read, or a readable file
SrcStates == {"ok", "missing", "unreadable"}

\* description_path: not given, given and copyable, given but missing
DescStates == {"none", "ok", "missing"}

\* how the git subprocesses end
GitStates == {"ok", "add_fails", "commit_fails", "not_installed"}

\* a part of the environment that the call never got to look at
Unused == "unused"

\* words and separators of the SQL inputs
SqlWords == Names \cup { <<"s","_","r">> }

SqlSeps == {" ", "_"}

RECURSIVE SqlOfLen(_)
SqlOfLen(n) == IF n = 1 THEN SqlWords
               ELSE { p \o <<sep>> \o w : p \in SqlOfLen(n - 1), sep \in SqlSeps, w \in SqlWords }

SqlInputs == UNION { SqlOfLen(n) : n \in 1..MaxSqlWords }

----------------------------------------------------------------------------
(* Catalog document: json.dumps / json.loads of a dict of str -> dict.      *)
(* Python dicts and JSON objects keep insertion order, so the document is   *)
(* the sequence of its (key, value) members; NoDoc is the absent file.      *)

NoDoc == [exists |-> FALSE, members |-> << >>]

\* ensure_structure line 18 writes "{}"
EmptyDoc == [exists |-> TRUE, members |-> << >>]

\* load_catalog on an existing document: the members in document order
\* (keys are strings and values hold only ints, strings and null, which
\* json.dumps and json.loads carry over unchanged)
Members(doc) == [ i \in 1..Len(doc.members) |->
                     [name |-> doc.members[i].name, entry |-> doc.members[i].entry] ]

\* save_catalog: the document written for the in-memory catalog
Dump(cat) == [exists |-> TRUE,
              members |-> [ i \in 1..Len(cat) |-> [name |-> cat[i].name, entry |-> cat[i].entry] ]]

Keys(cat) == { cat[i].name : i \in 1..Len(cat) }

\* catalog.get(logical_name): the value of the key, or None
Get(cat, name) ==
    IF name \in Keys(cat)
    THEN (CHOOSE m \in { cat[i] : i \in 1..Len(cat) } : m.name = name).entry
    ELSE None

\* the store's directories and document after ensure_structure()
EnsuredDirs == dirs \cup {TABLES_DIR, METADATA_DIR}

EnsuredDoc == IF ~catalogDoc.exists THEN EmptyDoc ELSE catalogDoc

----------------------------------------------------------------------------
(* add_table *)

\* faulty variant of TableIndex: the index is off by one
TableIndexPlusOne(cat) == Len(cat) + 1

\* line 61: table_index = len(catalog)
TableIndex(cat) == Len(cat)

\* lines 66-71: format from the lowered suffix
FileFormat(ext) == IF ext = CsvExt THEN <<"c","s","v">>
                   ELSE IF ext = ParquetExt THEN <<"p","a","r","q","u","e","t">>
                   ELSE None

\* column names of a source file with n columns
Columns(n) == [ i \in 1..n |-> <<"c", Digits[i + 1]>> ]

\* faulty variant of AddTableStop: the suffix is validated before the name is looked up
AddTableStopFormatFirst(cat, name, ext, src, desc, ncols, git) ==
    IF FileFormat(Lower(ext)) = None THEN "unsupported"
    ELSE IF name \in Keys(cat) THEN "already exists"
    ELSE IF src = "missing" THEN "copy failed"
    ELSE IF desc = "missing" THEN "description copy failed"
    ELSE IF src = "unreadable" THEN "engine error"
    ELSE IF ncols # 2 THEN "unpack error"
    ELSE IF git = "not_installed" THEN "git not found"
    ELSE "none"

\* the statement at which add_table stops: the exception it raises, or "none"
\* when it returns.  Line 85 unpacks the dict returned by infer_schema into two
\* targets, which raises unless the dict has exactly two keys; line 50 catches
\* CalledProcessError only, so a git executable that cannot be started raises.
AddTableStop(cat, name, ext, src, desc, ncols, git) ==
    IF name \in Keys(cat) THEN "already exists"
    ELSE IF FileFormat(Lower(ext)) = None THEN "unsupported"
    ELSE IF src = "missing" THEN "copy failed"
    ELSE IF desc = "missing" THEN "description copy failed"
    ELSE IF src = "unreadable" THEN "engine error"
    ELSE IF ncols # 2 THEN "unpack error"
    ELSE IF git = "not_installed" THEN "git not found"
    ELSE "none"

\* faulty variant of Copied: the data file is copied before the suffix is validated
CopiedBeforeValidation(stop) == stop \notin {"already exists", "copy failed"}

\* line 75 has run: the data file is in tables/
Copied(stop) == stop \notin {"already exists", "unsupported", "copy failed"}

\* line 82 has run: the description file is in tables/
DescCopied(stop, desc) == desc = "ok" /\ Copied(stop) /\ stop # "description copy failed"

\* faulty variant of Saved: the entry is persisted before the copy is attempted
SavedBeforeCopy(stop) == stop \notin {"already exists", "unsupported"}

\* line 97 has run: the catalog with the new entry is written
Saved(stop) == stop \in {"git not found", "none"}

\* lines 47-49 all succeeded: a snapshot was recorded
Committed(stop, git) == stop = "none" /\ git = "ok"

\* line 74: dst_path.name, line 81: desc_dst.name
DstName(index, ext) == Str(index) \o ext

DescDstName(index) == Str(index) \o DescSuffix

\* lines 88-94: the new entry.  schema is the first target of the unpacking at
\* line 85, i.e. the first key of the dict infer_schema returned.
NewEntry(index, ext, desc, ncols) ==
    [ index |-> index,
      file |-> TABLES_DIR \o <<"/">> \o Str(index) \o ext,
      description_file |-> IF desc = "ok"
                           THEN TABLES_DIR \o <<"/">> \o Str(index) \o DescSuffix
                           ELSE None,
      format |-> FileFormat(ext),
      schema |-> Columns(ncols)[1] ]

\* the caller's view of the call in progress: its arguments, the exception it
\* raised ("none" if it returned), whether the catalog document was absent when
\* it started, and what it printed or handed on.  NoLast: no call in progress.
NoLast == [ op |-> "none", name |-> None, ext |-> None, src |-> "none", desc |-> "none",
            ncols |-> 0, git |-> "none", err |-> "none", fresh |-> FALSE,
            sql |-> None, out |-> None ]

Idle == last = NoLast

AddTable(name, ext, src, desc, ncols, git) ==
    LET cat   == Members(EnsuredDoc)
        stop  == AddTableStop(cat, name, ext, src, desc, ncols, git)
        index == TableIndex(cat)
        lext  == Lower(ext)
    IN  /\ Idle
        /\ dirs' = EnsuredDirs
        /\ files' = files
                    \cup (IF Copied(stop) THEN {DstName(index, lext)} ELSE {})
                    \cup (IF DescCopied(stop, desc) THEN {DescDstName(index)} ELSE {})
        /\ catalogDoc' = IF Saved(stop)
                         THEN Dump(Append(cat, [name |-> name, entry |-> NewEntry(index, lext, desc, ncols)]))
                         ELSE EnsuredDoc
        /\ commits' = IF Committed(stop, git) THEN Append(commits, name) ELSE commits
        /\ last' = [NoLast EXCEPT !.op = "add_table", !.name = name, !.ext = ext,
                                  !.src = src, !.desc = desc, !.ncols = ncols, !.git = git,
                                  !.err = stop, !.fresh = ~catalogDoc.exists]

----------------------------------------------------------------------------
(* list_tables and get_table_meta *)

\* lines 113-123: the (index, name) rows printed
ListTables ==
    LET cat == Members(EnsuredDoc)
    IN  /\ Idle
        /\ dirs' = EnsuredDirs
        /\ catalogDoc' = EnsuredDoc
        /\ UNCHANGED <<files, commits>>
        /\ last' = [NoLast EXCEPT !.op = "list_tables", !.fresh = ~catalogDoc.exists,
                                  !.out = [ i \in 1..Len(cat) |-> <<cat[i].entry.index, cat[i].name>> ]]

\* lines 129-137: no ensure_structure(); load_catalog reads the file directly
GetTableMeta(name) ==
    /\ Idle
    /\ UNCHANGED <<dirs, catalogDoc, files, commits>>
    /\ last' = IF ~catalogDoc.exists
               THEN [NoLast EXCEPT !.op = "get_table_meta", !.name = name,
                                   !.fresh = TRUE, !.err = "FileNotFoundError"]
               ELSE IF name \notin Keys(Members(catalogDoc))
               THEN [NoLast EXCEPT !.op = "get_table_meta", !.name = name, !.err = "not found"]
               ELSE [NoLast EXCEPT !.op = "get_table_meta", !.name = name,
                                   !.out = <<Get(Members(catalogDoc), name)>>]

----------------------------------------------------------------------------
(* query_sql *)

IsWordAt(str, i) == i >= 1 /\ i <= Len(str) /\ str[i] \in WordChars

\* faulty variant of Boundary: the patterns are not anchored by \b
BoundaryAnywhere(str, i) == TRUE

\* \b between positions i and i+1 of str (i = 0 is the start, Len(str) the end)
Boundary(str, i) == IsWordAt(str, i) # IsWordAt(str, i + 1)

\* the last position of the run of word characters that starts at i
RECURSIVE RunEnd(_, _)
RunEnd(str, i) == IF IsWordAt(str, i + 1) THEN RunEnd(str, i + 1) ELSE i

\* the end of the greedy match of \b\w+\b starting at i, 0 if there is none
WordEnd(str, i) ==
    IF ~IsWordAt(str, i) \/ ~Boundary(str, i - 1) THEN 0
    ELSE LET ends == { j \in i..RunEnd(str, i) : Boundary(str, j) }
         IN  IF ends = {} THEN 0 ELSE CHOOSE j \in ends : \A k \in ends : k <= j

\* re.findall(r'\b\w+\b', sql), scanning from position i, as a set (line 156)
RECURSIVE FindAll(_, _)
FindAll(str, i) ==
    IF i > Len(str) THEN {}
    ELSE LET e == WordEnd(str, i)
         IN  IF e = 0 THEN FindAll(str, i + 1)
             ELSE {SubSeq(str, i, e)} \cup FindAll(str, e + 1)

Tokens(sql) == FindAll(sql, 1)

\* rf'\b{name}\b' matches str at position i
NameMatch(name, str, i) ==
    /\ i + Len(name) - 1 <= Len(str)
    /\ Boundary(str, i - 1)
    /\ SubSeq(str, i, i + Len(name) - 1) = name
    /\ Boundary(str, i + Len(name) - 1)

\* re.sub(rf'\b{name}\b', repl, str) from position i: leftmost non-overlapping
\* matches in str are replaced, the replacement text is not scanned
RECURSIVE Sub(_, _, _, _)
Sub(name, repl, str, i) ==
    IF i > Len(str) THEN << >>
    ELSE IF NameMatch(name, str, i) THEN repl \o Sub(name, repl, str, i + Len(name))
    ELSE <<str[i]>> \o Sub(name, repl, str, i + 1)

\* line 164-165: (DATA_LAKE_ROOT / meta["file"]).as_posix() in single quotes
QuotedPath(meta) == <<"'">> \o DATA_LAKE_ROOT \o <<"/">> \o meta.file \o <<"'">>

\* line 159
MatchedNames(cat, sql) == Keys(cat) \cap Tokens(sql)

\* the orders in which the for loop at line 162 may iterate the set
Orders(S) == { o \in [1..Cardinality(S) -> S] : \A i, j \in 1..Cardinality(S) : o[i] = o[j] => i = j }

\* lines 162-165: one re.sub per matched name over the same, mutated string
RECURSIVE Rewrite(_, _, _, _)
Rewrite(cat, order, k, sql) ==
    IF k > Len(order) THEN sql
    ELSE Rewrite(cat, order, k + 1, Sub(order[k], QuotedPath(Get(cat, order[k])), sql, 1))

\* order: the order in which the for loop at line 162 visits matched_names
QuerySql(sql, order) ==
    LET cat == Members(EnsuredDoc)
    IN  /\ Idle
        /\ dirs' = EnsuredDirs
        /\ catalogDoc' = EnsuredDoc
        /\ UNCHANGED <<files, commits>>
        /\ last' = [NoLast EXCEPT !.op = "query_sql", !.fresh = ~catalogDoc.exists,
                                  !.sql = sql, !.out = Rewrite(cat, order, 1, sql)]

----------------------------------------------------------------------------
(* The store *)

Init ==
    /\ dirs = {}
    /\ catalogDoc = NoDoc
    /\ files = {}
    /\ commits = << >>
    /\ last = NoLast

\* add_table looks at its environment one step after the other: the source file
\* at line 75, the description at lines 79-82, the columns at line 85 and git at
\* line 106.  What a call never reaches is left open (Unused, 0 columns).
Validated(cat, name, ext) == name \notin Keys(cat) /\ FileFormat(Lower(ext)) # None

SrcConsulted(cat, name, ext, src) == (src = Unused) <=> ~Validated(cat, name, ext)

DescConsulted(src, desc) == (desc = Unused) <=> (src \in {Unused, "missing"})

ColsConsulted(src, desc, ncols) == (ncols = 0) <=> ~(src = "ok" /\ desc \in {"none", "ok"})

GitConsulted(ncols, git) == (git = Unused) <=> (ncols # 2)

AddTableStep ==
    /\ Idle
    /\ \E name \in Names, ext \in Suffixes :
        \E src \in SrcStates \cup {Unused} :
           /\ SrcConsulted(Members(EnsuredDoc), name, ext, src)
           /\ \E desc \in DescStates \cup {Unused} :
               /\ DescConsulted(src, desc)
               /\ \E ncols \in 0..MaxCols :
                   /\ ColsConsulted(src, desc, ncols)
                   /\ \E git \in GitStates \cup {Unused} :
                       /\ GitConsulted(ncols, git)
                       /\ AddTable(name, ext, src, desc, ncols, git)

GetTableMetaStep == Idle /\ \E name \in Names : GetTableMeta(name)

QuerySqlStep ==
    /\ Idle
    /\ \E sql \in SqlInputs :
          \E order \in Orders(MatchedNames(Members(EnsuredDoc), sql)) : QuerySql(sql, order)

\* the caller takes the result (or the exception) and is free to call again
Return ==
    /\ ~Idle
    /\ last' = NoLast
    /\ UNCHANGED <<dirs, catalogDoc, files, commits>>

Next ==
    \/ AddTableStep
    \/ ListTables
    \/ GetTableMetaStep
    \/ QuerySqlStep
    \/ Return

Spec == Init /\ [][Next]_vars

----------------------------------------------------------------------------
(* Properties *)

\* the Catalog as the next load_catalog would see it
Catalog == Members(catalogDoc)

\* the call in progress is add_table with a name that is a key / not a key of
\* the catalog the call started from (c), and a suffix add_table accepts or not
AddOfKnown(l, c) == l.op = "add_table" /\ l.name \in Keys(c)

AddOfNew(l, c) == l.op = "add_table" /\ l.name \notin Keys(c)

Supported(ext) == FileFormat(Lower(ext)) # None

\* C1: add_table(t, p) for a new name t and a valid .csv file p, with any
\* number of columns, no description and a working git, returns without error
\* and get_table_meta(t) then gives an entry whose index is the number of
\* entries the Catalog held before the call.
C1_AddThenGetMeta ==
    [][ ( /\ AddOfNew(last', Catalog)
          /\ Lower(last'.ext) = CsvExt /\ last'.src = "ok"
          /\ last'.desc = "none" /\ last'.git \in {"ok", Unused} )
        => ( /\ last'.err = "none"
             /\ last'.name \in Keys(Catalog')
             /\ Get(Catalog', last'.name).index = Len(Catalog) ) ]_vars

\* C2: add_table with a name that is already a key of the Catalog raises the
\* duplicate-name error and changes neither the directories, the catalog
\* document, the files under tables/ nor the snapshots, whatever the suffix.
C2_DuplicateNameFails ==
    [][ AddOfKnown(last', Catalog)
        => ( /\ last'.err = "already exists"
             /\ dirs' = dirs /\ catalogDoc' = catalogDoc
             /\ files' = files /\ commits' = commits ) ]_vars

C2_Witness ==
    /\ last.op = "add_table" /\ last.err = "already exists"
    /\ last.name \in Keys(Catalog)
    /\ ~Supported(last.ext)

\* C3 (as stated): add_table with a new name and an unsupported suffix raises
\* the unsupported-format error and leaves directories, catalog document, files
\* and snapshots exactly as they were, also when the store did not exist yet.
C3_UnsupportedNoSideEffect ==
    [][ ( AddOfNew(last', Catalog) /\ ~Supported(last'.ext) )
        => ( /\ last'.err = "unsupported"
             /\ dirs' = dirs /\ catalogDoc' = catalogDoc
             /\ files' = files /\ commits' = commits ) ]_vars

\* C3 (amended): add_table with a new name and an unsupported suffix raises the
\* unsupported-format error; the Catalog's entries, the files under tables/ and
\* the snapshots are unchanged, and the only effect is that of ensure_structure:
\* the tables/ and metadata/ directories and an empty catalog document exist
\* afterwards, so a store that already existed is left exactly as it was.
C3_UnsupportedOnlyEnsuresStructure ==
    [][ ( AddOfNew(last', Catalog) /\ ~Supported(last'.ext) )
        => ( /\ last'.err = "unsupported"
             /\ Catalog' = Catalog
             /\ files' = files /\ commits' = commits
             /\ dirs' = dirs \cup {TABLES_DIR, METADATA_DIR}
             /\ catalogDoc'.exists
             /\ (catalogDoc.exists => dirs' = dirs /\ catalogDoc' = catalogDoc) ) ]_vars

C3_Witness ==
    /\ last.op = "add_table" /\ last.err = "unsupported" /\ last.fresh
    /\ catalogDoc = EmptyDoc /\ files = {}

\* the rewrite the specification describes: one pass over the original SQL in
\* which every whole-word token that is a catalog name becomes that name's
\* quoted path and nothing that was substituted is scanned again
RECURSIVE SinglePass(_, _, _)
SinglePass(cat, sql, i) ==
    IF i > Len(sql) THEN << >>
    ELSE LET e == WordEnd(sql, i)
             tok == SubSeq(sql, i, e)
         IN  IF e = 0 THEN <<sql[i]>> \o SinglePass(cat, sql, i + 1)
             ELSE (IF tok \in Keys(cat) THEN QuotedPath(Get(cat, tok)) ELSE tok)
                  \o SinglePass(cat, sql, e + 1)

\* C4: in the SQL handed to the engine every whole-word occurrence of a matched
\* catalog name of the original SQL stands as exactly that name's quoted path.
C4_EachOccurrenceOwnPath ==
    last.op = "query_sql" => last.out = SinglePass(Catalog, last.sql, 1)

\* str occurs in text as a contiguous run
Occurs(str, text) ==
    \E i \in 1..Len(text) : i + Len(str) - 1 <= Len(text) /\ SubSeq(text, i, i + Len(str) - 1) = str

\* C5: a catalog name that is not a whole-word token of the SQL is never
\* replaced (its quoted path is not in the result and every token of the SQL
\* that is not a catalog name is still a token of the result), and a SQL with no
\* token equal to a catalog name is handed to the engine unchanged.
C5_SubstringSafety ==
    last.op = "query_sql" =>
        /\ \A n \in Keys(Catalog) \ Tokens(last.sql) :
               ~Occurs(QuotedPath(Get(Catalog, n)), last.out)
        /\ \A tok \in Tokens(last.sql) \ Keys(Catalog) : tok \in Tokens(last.out)
        /\ (Tokens(last.sql) \cap Keys(Catalog) = {} => last.out = last.sql)

C5_Witness ==
    /\ last.op = "query_sql"
    /\ last.sql = <<"s","_","r"," ","c","s","v">>
    /\ Keys(Catalog) = { <<"s">>, <<"c","s","v">> }
    /\ last.out # last.sql

\* C6: however the snapshot fails, an add_table call that passed validation,
\* copy and schema inference returns without raising and its entry is in the
\* persisted Catalog.
C6_SnapshotFailureNeverAborts ==
    [][ ( /\ AddOfNew(last', Catalog) /\ Supported(last'.ext)
          /\ last'.src = "ok" /\ last'.desc # "missing" /\ last'.ncols = 2
          /\ last'.git # "ok" )
        => ( last'.err = "none" /\ last'.name \in Keys(Catalog') ) ]_vars

\* C7: get_table_meta of a name that is not in the Catalog raises the not-found
\* error in every state of the store, the one without a catalog document
\* included.
C7_UnknownNameNotFound ==
    ( last.op = "get_table_meta" /\ last.name \notin Keys(Catalog) )
        => last.err = "not found"

\* C8: every order of iterating the matched names gives the same rewritten SQL.
C8_OrderIndependent ==
    last.op = "query_sql" =>
        \A o1, o2 \in Orders(MatchedNames(Catalog, last.sql)) :
            Rewrite(Catalog, o1, 1, last.sql) = Rewrite(Catalog, o2, 1, last.sql)

\* the suffix add_table accepted for an entry of this format
ExtOf(format) == <<".">> \o format

IndicesInOrder(cat) ==
    \A i \in 1..Len(cat) :
        /\ cat[i].entry.index = i - 1
        /\ cat[i].entry.file = TABLES_DIR \o <<"/">> \o Str(i - 1) \o ExtOf(cat[i].entry.format)

\* C9: after any sequence of calls the n entries have the indices 0..n-1 in
\* insertion order, each file is tables/<index><ext>, and no call changes the
\* index or the file of an entry that was already there.
C9_IndicesStable ==
    [][ /\ IndicesInOrder(Catalog')
        /\ Len(Catalog') >= Len(Catalog)
        /\ \A i \in 1..Len(Catalog) :
               /\ Catalog'[i].name = Catalog[i].name
               /\ Catalog'[i].entry.index = Catalog[i].entry.index
               /\ Catalog'[i].entry.file = Catalog[i].entry.file ]_vars

C9_Witness ==
    /\ Len(Catalog) = 2
    /\ Catalog[1].entry.index = 0 /\ Catalog[2].entry.index = 1
    /\ Catalog[2].entry.format = <<"p","a","r","q","u","e","t">>
    /\ last.op = "add_table" /\ last.err # "none"

\* position of the first "/" of a relative path, 0 if there is none
FirstSlash(path) ==
    IF \E i \in 1..Len(path) : path[i] = "/"
    THEN CHOOSE i \in 1..Len(path) : path[i] = "/" /\ \A j \in 1..(i - 1) : path[j] # "/"
    ELSE 0

\* DATA_LAKE_ROOT / path is an existing file
ExistsUnderRoot(path) ==
    /\ FirstSlash(path) > 1
    /\ SubSeq(path, 1, FirstSlash(path) - 1) = TABLES_DIR
    /\ TABLES_DIR \in dirs
    /\ SubSeq(path, FirstSlash(path) + 1, Len(path)) \in files

EntryFilesExist == \A i \in 1..Len(Catalog) : ExistsUnderRoot(Catalog[i].entry.file)

FailedAfterCopy(l) ==
    l.op = "add_table" /\ l.err \in {"description copy failed", "engine error", "unpack error"}

\* C10: every entry of the persisted Catalog has a file that exists under the
\* root; a call that fails after the copy leaves the copied file and no entry.
C10_EntryFilesExist ==
    [][ /\ EntryFilesExist'
        /\ FailedAfterCopy(last') =>
               /\ Catalog' = Catalog
               /\ DstName(Len(Catalog), Lower(last'.ext)) \in files'
               /\ ~\E i \in 1..Len(Catalog') :
                      Catalog'[i].entry.file
                          = TABLES_DIR \o <<"/">> \o DstName(Len(Catalog), Lower(last'.ext)) ]_vars

C10_Witness ==
    /\ last.op = "add_table" /\ last.err = "unpack error"
    /\ Len(Catalog) = 1
    /\ EntryFilesExist
    /\ Cardinality(files) > 1

====
